---- MODULE Spec2Model ----
(***************************************************************************)
(* Model of the Secret Service backed U2F secret store                     *)
(* (linux/user-daemon/src/stores/secret_service_store.rs).                 *)
(*                                                                         *)
(* The store talks to an external vault (the freedesktop Secret Service)   *)
(* over blocking IPC calls.  The vault's default collection is modelled    *)
(* as the sequence `items` (in creation order) and the flag `locked`; the  *)
(* wall clock read by SystemTime::now() is `now` (seconds since the        *)
(* epoch).  Every caller of the store runs one operation at a time; an     *)
(* operation that performs several vault calls is one action per vault     *)
(* call, local computation being folded into the preceding call.           *)
(***************************************************************************)
EXTENDS Integers, Sequences, FiniteSets, TLC

VARIABLES
    items,      \* the default collection: sequence of items, creation order
    locked,     \* lock state of the default collection
    now,        \* wall clock, seconds since UNIX_EPOCH
    pc,         \* pc[c]: the vault call caller c is about to make, or "idle"
    frame,      \* frame[c]: locals of the add_secret call caller c is running
    faults,     \* number of vault faults so far (failed calls, tampering)
    log         \* history: the completed calls with what they returned

vars == <<items, locked, now, pc, frame, faults, log>>

----------------------------------------------------------------------------
(* Bounds of the model *)

MaxNow == 2         \* the clock runs over 0..MaxNow
MaxCalls == 3       \* number of store operations issued in one behaviour
MaxFaults == 1      \* number of vault faults in one behaviour

(* Input domains *)

Callers == {"c1", "c2"}
AppIds == {"a1", "a2"}
KeyHandles == {"h1", "h2"}
PrivateKeys == {"pk1"}

\* the (application, key handle) pairs the callers use
Pairs == { <<"a1", "h1">>, <<"a2", "h2">> }

----------------------------------------------------------------------------
(* Values *)

\* enum SsError of the secret_service crate, as matched by From<SsError>
SsErrors == {"Crypto", "Dbus", "Locked", "NoResult", "Parse", "Prompt"}

\* impl From<SsError> for SecretServiceError: the normalized error kind
From(err) ==
    CASE err = "Crypto" -> "Crypto"
      [] err = "Dbus" -> "DBus"
      [] err = "Locked" -> "Locked"
      [] err = "NoResult" -> "NoResult"
      [] err = "Parse" -> "Parse"
      [] err = "Prompt" -> "Prompt"

\* the PEM private key hard-wired into retrieve_application_key
DefaultPem == "MHcCAQEEILoFuwW6BboFugW3BbkFuQW5BbkFuQW5BbkFuQW5BboFoAoGCCqGSM49"

\* Option<T> is a set with at most one element
None == {}
Some(x) == {x}

\* io::Result<T>.  Values of different types are kept apart by the length of
\* the tuple: Ok(()) has no value, Ok(option) carries a tag before its value
Ok(v) == <<"Ok", v>>
OkUnit == <<"Ok">>
OkOption(option) == <<"Ok", "Option", option>>
Err(kind, msg) == <<"Err", kind, msg>>

\* u2f_core::ApplicationKey::new
ApplicationKey(application, handle, key) ==
    [application |-> application, handle |-> handle, key |-> key]

\* stores::Secret
Secret(application_key, counter) ==
    [application_key |-> application_key, counter |-> counter]

\* AppId::to_base64 / KeyHandle::to_base64 (standard alphabet, padded)
to_base64(x) ==
    CASE x = "a1" -> "YTE="
      [] x = "a2" -> "YTI="
      [] x = "h1" -> "aDE="
      [] x = "h2" -> "aDI="

\* u2f_core::try_reverse_app_id: the origin of a well-known application id
try_reverse_app_id(app_id) ==
    IF app_id = "a1" THEN Some("https://example.com") ELSE None

\* serde_json::to_string(&Secret): the members of the JSON object, in order
to_string(secret) ==
    << <<"application_key", secret.application_key>>,
       <<"counter", secret.counter>> >>

\* a payload serde_json::from_slice::<Secret> accepts
IsRecordEncoding(bytes) ==
    /\ Len(bytes) = 2
    /\ bytes[1][1] = "application_key"
    /\ bytes[2][1] = "counter"

\* serde_json::from_slice::<Secret>
from_slice(bytes) ==
    IF IsRecordEncoding(bytes)
    THEN Ok(Secret(bytes[1][2], bytes[2][2]))
    ELSE Err("Other", "serde_json")

----------------------------------------------------------------------------
(* Attribute schema *)

search_attributes(app_id, handle) ==
    { <<"application", "com.github.danstiner.rust-u2f">>,
      <<"u2f_app_id_hash", to_base64(app_id)>>,
      <<"u2f_key_handle", to_base64(handle)>>,
      <<"xdg:schema", "com.github.danstiner.rust-u2f">> }

\* registration_attributes building its own vector and leaving out the key
\* handle entry
registration_attributes_without_handle(app_id, handle, clock) ==
    (search_attributes(app_id, handle)
            \ { <<"u2f_key_handle", to_base64(handle)>> })
        \cup { <<"times_used", ToString(0)>>,
               <<"date_registered", ToString(clock)>> }
        \cup { <<"u2f_app_id", id>> : id \in try_reverse_app_id(app_id) }

\* `clock` is the value SystemTime::now() returns inside the function
registration_attributes(app_id, handle, clock) ==
    search_attributes(app_id, handle)
        \cup { <<"times_used", ToString(0)>>,
               <<"date_registered", ToString(clock)>> }
        \cup { <<"u2f_app_id", id>> : id \in try_reverse_app_id(app_id) }

\* the label built from the raw application id when no origin resolves
label_for_raw_app_id(app_id) ==
    IF try_reverse_app_id(app_id) # None
    THEN <<"Universal 2nd Factor token for ",
           CHOOSE id \in try_reverse_app_id(app_id) : TRUE>>
    ELSE <<"Universal 2nd Factor token for ", app_id>>

\* the label add_secret gives the item
label_for(app_id) ==
    IF try_reverse_app_id(app_id) # None
    THEN <<"Universal 2nd Factor token for ",
           CHOOSE id \in try_reverse_app_id(app_id) : TRUE>>
    ELSE <<"Universal 2nd Factor token for ", to_base64(app_id)>>

\* Collection::search_items: the items carrying all the given attributes
search_items(collection, attributes) ==
    SelectSeq(collection, LAMBDA item : attributes \subseteq item.attributes)

\* Collection::create_item: with `replace` an item carrying exactly the same
\* attributes is overwritten in place, otherwise a new item is added
create_item(collection, item, replace) ==
    IF replace /\ \E i \in DOMAIN collection :
                    collection[i].attributes = item.attributes
    THEN [i \in DOMAIN collection |->
            IF collection[i].attributes = item.attributes
            THEN item ELSE collection[i]]
    ELSE Append(collection, item)

\* find_item: the last element of the search result, if any (Vec::pop)
find_item(collection, app_id, handle) ==
    LET result == search_items(collection, search_attributes(app_id, handle))
    IN  IF Len(result) = 0 THEN None ELSE Some(result[Len(result)])

----------------------------------------------------------------------------
(* Initial state *)

\* a payload that is not a record encoding: the object lacks "counter"
MalformedPayload == << <<"application_key", "?">> >>

\* locals of add_secret: `is_locked` is what the lock query returned
\* ("unknown": not asked yet), `unlock` the outcome of the unlock request
\* ("none": not issued), `unlock_requests` the number of requests issued
IdleFrame == [secret |-> Secret(ApplicationKey("", "", ""), 0),
              is_locked |-> "unknown", unlock |-> "none",
              unlock_requests |-> 0, attributes |-> {}]

Init ==
    /\ items = <<>>
    /\ locked \in BOOLEAN
    /\ now = 0
    /\ pc = [c \in Callers |-> "idle"]
    /\ frame = [c \in Callers |-> IdleFrame]
    /\ faults = 0
    /\ log = <<>>

----------------------------------------------------------------------------
(* History *)

started == Len(log) + Cardinality({c \in Callers : pc[c] # "idle"})

\* the record of a completed call: `unlock` is the outcome of its unlock
\* request ("none": not issued, "Ok", or the SsError), `cause` the SsError of
\* the vault call that failed ("none": no failure), `created` the number of
\* items the call created, `vault` the collection as the call left it
Entry(op, app_id, handle, key, result, unlock, cause, created, vault) ==
    [op |-> op, application |-> app_id, handle |-> handle, key |-> key,
     result |-> result, unlock |-> unlock, cause |-> cause,
     created |-> created, vault |-> vault]

----------------------------------------------------------------------------
(* add_application_key / add_secret *)

\* add_application_key seeding the record with counter 1
add_application_key_counter_one(c, key) ==
    /\ pc[c] = "idle"
    /\ started < MaxCalls
    /\ pc' = [pc EXCEPT ![c] = "get_default_collection"]
    /\ frame' = [frame EXCEPT ![c] =
                    [IdleFrame EXCEPT !.secret = Secret(key, 1)]]
    /\ UNCHANGED <<items, locked, now, faults, log>>

add_application_key(c, key) ==
    /\ pc[c] = "idle"
    /\ started < MaxCalls
    /\ pc' = [pc EXCEPT ![c] = "get_default_collection"]
    /\ frame' = [frame EXCEPT ![c] =
                    [IdleFrame EXCEPT !.secret = Secret(key, 0)]]
    /\ UNCHANGED <<items, locked, now, faults, log>>

\* add_secret returns `result`
add_secret_return(c, result, unlock, cause, created, vault) ==
    /\ log' = Append(log,
                Entry("add_application_key",
                      frame[c].secret.application_key.application,
                      frame[c].secret.application_key.handle,
                      frame[c].secret.application_key.key,
                      result, unlock, cause, created, vault))
    /\ pc' = [pc EXCEPT ![c] = "idle"]
    /\ frame' = [frame EXCEPT ![c] = IdleFrame]

\* a vault call of add_secret fails with SsError e; map_err keeps only `msg`
add_secret_fail(c, e, msg, unlock) ==
    /\ faults < MaxFaults
    /\ faults' = faults + 1
    /\ add_secret_return(c, Err("Other", msg), unlock, e, 0, items)
    /\ UNCHANGED <<items, locked, now>>

\* the attributes are computed once unlock_if_locked has returned Ok
add_secret_attributes(c, is_locked, unlock, unlock_requests) ==
    /\ pc' = [pc EXCEPT ![c] = "create_item"]
    /\ frame' = [frame EXCEPT ![c].is_locked = is_locked,
                              ![c].unlock = unlock,
                              ![c].unlock_requests = unlock_requests,
                              ![c].attributes =
                                  registration_attributes(
                                      frame[c].secret.application_key.application,
                                      frame[c].secret.application_key.handle,
                                      now)]

get_default_collection_ok(c) ==
    /\ pc[c] = "get_default_collection"
    /\ pc' = [pc EXCEPT ![c] = "is_locked"]
    /\ UNCHANGED <<items, locked, now, frame, faults, log>>

get_default_collection_err(c, e) ==
    /\ pc[c] = "get_default_collection"
    /\ add_secret_fail(c, e, "get_default_collection", "none")

\* unlock_if_locked ignoring the answer of the lock query: no unlock request
is_locked_true_no_unlock(c) ==
    /\ pc[c] = "is_locked"
    /\ locked
    /\ pc' = [pc EXCEPT ![c] = "create_item"]
    /\ frame' = [frame EXCEPT ![c].is_locked = "true",
                              ![c].attributes =
                                  registration_attributes(
                                      frame[c].secret.application_key.application,
                                      frame[c].secret.application_key.handle,
                                      now)]
    /\ UNCHANGED <<items, locked, now, faults, log>>

is_locked_true(c) ==
    /\ pc[c] = "is_locked"
    /\ locked
    /\ pc' = [pc EXCEPT ![c] = "unlock"]
    /\ frame' = [frame EXCEPT ![c].is_locked = "true"]
    /\ UNCHANGED <<items, locked, now, faults, log>>

is_locked_false(c) ==
    /\ pc[c] = "is_locked"
    /\ ~locked
    /\ add_secret_attributes(c, "false", "none", 0)
    /\ UNCHANGED <<items, locked, now, faults, log>>

is_locked_err(c, e) ==
    /\ pc[c] = "is_locked"
    /\ add_secret_fail(c, e, "is_locked", "none")

unlock_ok(c) ==
    /\ pc[c] = "unlock"
    /\ locked' = FALSE
    /\ add_secret_attributes(c, frame[c].is_locked, "Ok",
                             frame[c].unlock_requests + 1)
    /\ UNCHANGED <<items, now, faults, log>>

\* unlock_if_locked asking again after a failed unlock request
unlock_err_retry(c, e) ==
    /\ pc[c] = "unlock"
    /\ faults < MaxFaults
    /\ faults' = faults + 1
    /\ frame' = [frame EXCEPT ![c].unlock = e,
                              ![c].unlock_requests = @ + 1]
    /\ UNCHANGED <<items, locked, now, pc, log>>

unlock_err(c, e) ==
    /\ pc[c] = "unlock"
    /\ add_secret_fail(c, e, "unlock", e)

\* the item add_secret hands to create_item
new_item(c) ==
    [label |-> label_for(frame[c].secret.application_key.application),
     attributes |-> frame[c].attributes,
     secret |-> to_string(frame[c].secret),
     content_type |-> "application/json"]

\* add_secret passing replace = true to create_item
create_item_ok_replace(c) ==
    /\ pc[c] = "create_item"
    /\ ~locked
    /\ items' = create_item(items, new_item(c), TRUE)
    /\ add_secret_return(c, OkUnit, frame[c].unlock, "none", 1, items')
    /\ UNCHANGED <<locked, now, faults>>

\* create_item(label, attributes, secret, replace = false, content_type)
create_item_ok(c) ==
    /\ pc[c] = "create_item"
    /\ ~locked
    /\ items' = create_item(items, new_item(c), FALSE)
    /\ add_secret_return(c, OkUnit, frame[c].unlock, "none", 1, items')
    /\ UNCHANGED <<locked, now, faults>>

\* create_item reporting a failure after the vault has stored the item
create_item_err_partial(c, e) ==
    /\ pc[c] = "create_item"
    /\ faults < MaxFaults
    /\ faults' = faults + 1
    /\ items' = Append(items, new_item(c))
    /\ add_secret_return(c, Err("Other", "create_item"), frame[c].unlock, e,
                         0, items')
    /\ UNCHANGED <<locked, now>>

create_item_err(c, e) ==
    /\ pc[c] = "create_item"
    /\ add_secret_fail(c, e, "create_item", frame[c].unlock)

----------------------------------------------------------------------------
(* get_and_increment_counter *)

get_and_increment_counter(c, application, handle) ==
    /\ pc[c] = "idle"
    /\ started < MaxCalls
    /\ log' = Append(log,
                Entry("get_and_increment_counter", application, handle, "",
                      Ok(now), "none", "none", 0, items))
    /\ UNCHANGED <<items, locked, now, pc, frame, faults>>

----------------------------------------------------------------------------
(* retrieve_application_key *)

\* retrieve_application_key consuming the item it looked up
retrieve_application_key_take(c, application, handle) ==
    /\ pc[c] = "idle"
    /\ started < MaxCalls
    /\ items' = SelectSeq(items,
                    LAMBDA item : item \notin find_item(items, application, handle))
    /\ LET defkey == ApplicationKey(application, handle, DefaultPem)
       IN  log' = Append(log,
                    Entry("retrieve_application_key", application, handle, "",
                          OkOption(Some(defkey)), "none", "none", 0, items'))
    /\ UNCHANGED <<locked, now, pc, frame, faults>>

retrieve_application_key(c, application, handle) ==
    /\ pc[c] = "idle"
    /\ started < MaxCalls
    /\ LET defkey == ApplicationKey(application, handle, DefaultPem)
       IN  log' = Append(log,
                    Entry("retrieve_application_key", application, handle, "",
                          OkOption(Some(defkey)), "none", "none", 0, items))
    /\ UNCHANGED <<items, locked, now, pc, frame, faults>>

----------------------------------------------------------------------------
(* Environment *)

\* the wall clock advances
Tick ==
    /\ now < MaxNow
    /\ now' = now + 1
    /\ UNCHANGED <<items, locked, pc, frame, faults, log>>

\* the vault locks the collection (user action, idle timeout)
Lock ==
    /\ ~locked
    /\ locked' = TRUE
    /\ UNCHANGED <<items, now, pc, frame, faults, log>>

\* another client of the vault overwrites the payload of an item
Tamper(i) ==
    /\ faults < MaxFaults
    /\ IsRecordEncoding(items[i].secret)
    /\ faults' = faults + 1
    /\ items' = [items EXCEPT ![i].secret = MalformedPayload]
    /\ UNCHANGED <<locked, now, pc, frame, log>>

----------------------------------------------------------------------------

Next ==
    \/ \E c \in Callers, p \in Pairs, k \in PrivateKeys :
            add_application_key(c, ApplicationKey(p[1], p[2], k))
    \/ \E c \in Callers : get_default_collection_ok(c)
    \/ \E c \in Callers, e \in SsErrors : get_default_collection_err(c, e)
    \/ \E c \in Callers : is_locked_true(c)
    \/ \E c \in Callers : is_locked_false(c)
    \/ \E c \in Callers, e \in SsErrors : is_locked_err(c, e)
    \/ \E c \in Callers : unlock_ok(c)
    \/ \E c \in Callers, e \in SsErrors : unlock_err(c, e)
    \/ \E c \in Callers : create_item_ok(c)
    \/ \E c \in Callers, e \in SsErrors : create_item_err(c, e)
    \/ \E c \in Callers, p \in Pairs :
            get_and_increment_counter(c, p[1], p[2])
    \/ \E c \in Callers, p \in Pairs :
            retrieve_application_key(c, p[1], p[2])
    \/ Tick
    \/ Lock
    \/ \E i \in DOMAIN items : Tamper(i)

Spec == Init /\ [][Next]_vars

----------------------------------------------------------------------------
(* Properties.  The log holds the completed calls in the order in which    *)
(* they took effect; log[i].vault is the collection the call left behind,  *)
(* which for the two read operations is also the collection it started on. *)

Calls(op) == {i \in DOMAIN log : log[i].op = op}
Counters == Calls("get_and_increment_counter")
Retrieves == Calls("retrieve_application_key")
Adds == Calls("add_application_key")

IsOk(i) == log[i].result[1] = "Ok"
SamePair(i, j) ==
    /\ log[i].application = log[j].application
    /\ log[i].handle = log[j].handle

\* the item the vault holds for the pair of call i, as call i saw it
Found(i) == find_item(log[i].vault, log[i].application, log[i].handle)

\* the successful registrations of the pair of call j that precede call j
AddsBefore(j) == {i \in Adds : i < j /\ IsOk(i) /\ SamePair(i, j)}

\* the counter calls for the pair of call j made since its registration
CountersBefore(j) ==
    {i \in Counters : i < j /\ SamePair(i, j) /\ AddsBefore(i) # {}}

\* C1: successive successful get_and_increment_counter calls for the same
\* pair return strictly increasing (hence pairwise distinct) values, however
\* they are interleaved with operations on other pairs.
C1_CounterStrictlyIncreasing ==
    \A i \in Counters, j \in Counters :
        (i < j /\ SamePair(i, j) /\ IsOk(i) /\ IsOk(j))
            => log[i].result[2] < log[j].result[2]

\* C2: after add_application_key(k), the m-th successful
\* get_and_increment_counter call for k's pair returns m - 1 and leaves a
\* stored record whose counter is m.
C2_CounterReadsAndPersists ==
    \A j \in Counters :
        (IsOk(j) /\ AddsBefore(j) # {})
            => /\ log[j].result[2] = Cardinality(CountersBefore(j))
               /\ \E item \in Found(j) :
                    /\ IsRecordEncoding(item.secret)
                    /\ from_slice(item.secret)[2].counter
                            = Cardinality(CountersBefore(j)) + 1

\* C3: calls of get_and_increment_counter that callers run concurrently for
\* the same pair never return the same value.  A call is a single read of
\* the clock, so the concurrent runs of several callers are exactly the
\* orders in which their calls are logged.
C3_ConcurrentCountersDistinct ==
    \A i \in Counters, j \in Counters :
        (i # j /\ SamePair(i, j)) => log[i].result # log[j].result

\* C4: the value get_and_increment_counter returns is a function of the
\* vault contents alone: two calls for the same pair made on the same vault
\* contents return the same value, whatever the clock shows at each.
C4_CounterDeterminedByVault ==
    \A i \in Counters, j \in Counters :
        (SamePair(i, j) /\ log[i].vault = log[j].vault)
            => log[i].result = log[j].result

\* C5: get_and_increment_counter fails when the vault holds no record for
\* the pair.
C5_CounterFailsWithoutRecord ==
    \A i \in Counters : Found(i) = None => log[i].result[1] = "Err"

\* C6: a successful retrieve_application_key made after a successful
\* add_application_key(k) for the same pair returns Some(k): application,
\* handle and private key are those that were stored.
C6_RetrieveReturnsStoredKey ==
    \A j \in Retrieves :
        IsOk(j) =>
            \A i \in AddsBefore(j) :
                log[j].result =
                    OkOption(Some(ApplicationKey(log[i].application,
                                                 log[i].handle, log[i].key)))

\* C7: retrieve_application_key for a pair that was never registered
\* returns Ok(None).
C7_RetrieveUnknownIsNone ==
    \A i \in Retrieves : Found(i) = None => log[i].result = OkOption(None)

\* C8: when the item the vault holds for the pair has a payload that is not
\* a record encoding, retrieve_application_key returns a parse failure and
\* never Some(key).
C8_RetrieveMalformedFails ==
    \A i \in Retrieves :
        (\E item \in Found(i) : ~IsRecordEncoding(item.secret))
            => log[i].result = Err("Other", "serde_json")

\* C9: an operation that found the collection locked completes as on an
\* unlocked collection when its unlock request succeeds; when the request is
\* refused (Locked) or its prompt dismissed (Prompt) it returns a Locked or
\* PromptDismissed error and has created no item.
C9_LockedVaultRecovery ==
    \A i \in DOMAIN log :
        /\ (log[i].unlock = "Ok" /\ log[i].cause = "none")
                => (IsOk(i) /\ log[i].created = 1)
        /\ log[i].unlock \in {"Locked", "Prompt"}
                => /\ log[i].result[1] = "Err"
                   /\ log[i].result[2] \in {"Locked", "PromptDismissed"}
                   /\ log[i].created = 0

\* C10: the vault holds at most one item per (application, handle) pair; a
\* second add_application_key for a pair does not leave two items with the
\* pair's search attributes.
C10_OneItemPerPair ==
    \A p \in Pairs :
        Len(search_items(items, search_attributes(p[1], p[2]))) <= 1

\* C11: every failure of a vault call inside a store operation reaches the
\* caller as the normalized kind (From<SsError>) of the vault's failure.
C11_FailuresNormalized ==
    \A i \in DOMAIN log :
        log[i].cause # "none"
            => /\ log[i].result[1] = "Err"
               /\ log[i].result[2] = From(log[i].cause)

\* the item a successful add_application_key call i created
Created(i) == log[i].vault[Len(log[i].vault)]

\* C12: the search attributes of a pair are among its registration
\* attributes, distinct pairs have distinct search attributes, and so the
\* item a successful add wrote for (a, h) is matched by the search for
\* (a, h) and by the search for no other pair.
C12_SearchAttributesIndexWrites ==
    /\ \A a \in AppIds, h \in KeyHandles, clock \in 0..MaxNow :
            search_attributes(a, h) \subseteq registration_attributes(a, h, clock)
    /\ \A a1 \in AppIds, a2 \in AppIds, h1 \in KeyHandles, h2 \in KeyHandles :
            search_attributes(a1, h1) = search_attributes(a2, h2)
                => (a1 = a2 /\ h1 = h2)
    /\ \A i \in Adds :
            IsOk(i) =>
                /\ Found(i) = Some(Created(i))
                /\ \A a \in AppIds, h \in KeyHandles :
                        (<<a, h>> # <<log[i].application, log[i].handle>>)
                            => Created(i) \notin
                                   find_item(log[i].vault, a, h)

C12_Witness ==
    \E i \in Adds : IsOk(i) /\ Found(i) = Some(Created(i))

C14_AccessOnlyAfterUnlock ==
    /\ \A c \in Callers :
            pc[c] = "create_item"
                => \/ frame[c].is_locked = "false"
                   \/ frame[c].is_locked = "true" /\ frame[c].unlock = "Ok"
    /\ \A i \in DOMAIN log :
            log[i].created > 0 => log[i].unlock \in {"none", "Ok"}

C14_Witness ==
    /\ \E c \in Callers :
            /\ pc[c] = "create_item"
            /\ frame[c].is_locked = "true"
            /\ frame[c].unlock = "Ok"
    /\ \E i \in DOMAIN log : log[i].created = 1 /\ log[i].unlock = "Ok"

\* caller c's unlock request returns in this step
UnlockReturns(c) ==
    /\ pc[c] = "unlock"
    /\ (pc'[c] # pc[c] \/ frame'[c] # frame[c])

\* C15: an operation issues an unlock request only when its lock query
\* answered locked, and at most one; when the request fails the operation
\* ends there with an error, with no second request and no vault access.
C15_SingleUnlockRequest ==
    [][\A c \in Callers :
        /\ frame[c].unlock_requests <= 1
        /\ frame'[c].unlock_requests <= 1
        /\ UnlockReturns(c) =>
            /\ frame[c].is_locked = "true"
            /\ frame[c].unlock_requests = 0
            /\ items' = items
            /\ \/ /\ pc'[c] = "create_item"
                  /\ frame'[c].unlock = "Ok"
                  /\ frame'[c].unlock_requests = 1
                  /\ log' = log
               \/ /\ pc'[c] = "idle"
                  /\ Len(log') = Len(log) + 1
                  /\ log'[Len(log')].unlock \in SsErrors
                  /\ log'[Len(log')].result[1] = "Err"
                  /\ log'[Len(log')].created = 0
      ]_vars

C15_Witness ==
    /\ \E i \in DOMAIN log :
            /\ log[i].unlock \in SsErrors
            /\ log[i].result[1] = "Err"
    /\ \E c \in Callers : frame[c].unlock_requests = 1

\* C16: add_application_key either creates exactly one new item and returns
\* Ok, or returns an error and leaves the items of the vault as they were,
\* whichever vault call failed; no step of a call that has not returned
\* adds or removes an item.
C16_AddAllOrNothing ==
    [][/\ Len(log') = Len(log) => Len(items') = Len(items)
       /\ (Len(log') = Len(log) + 1
            /\ log'[Len(log')].op = "add_application_key")
           => LET e == log'[Len(log')]
              IN  \/ /\ e.result = OkUnit
                     /\ Len(items') = Len(items) + 1
                     /\ SubSeq(items', 1, Len(items)) = items
                     /\ items'[Len(items')].attributes
                            \in { registration_attributes(
                                      e.application, e.handle, t) :
                                  t \in 0..MaxNow }
                     /\ items'[Len(items')].secret
                            = to_string(Secret(ApplicationKey(
                                  e.application, e.handle, e.key), 0))
                  \/ /\ e.result[1] = "Err"
                     /\ items' = items
      ]_vars

C16_Witness ==
    /\ \E i \in Adds : IsOk(i) /\ log[i].created = 1
    /\ \E i \in Adds : ~IsOk(i) /\ log[i].result[3] = "create_item"
    /\ Len(items) = Cardinality({i \in Adds : IsOk(i)})

\* C17: add_application_key writes without looking for an existing item:
\* each successful call adds one item (create_item with replace = false),
\* so the vault holds as many items with a pair's search attributes as there
\* were successful calls for the pair.
C17_AddNeverSearchesOrReplaces ==
    \A p \in Pairs :
        Len(search_items(items, search_attributes(p[1], p[2])))
            = Cardinality({i \in Adds : /\ IsOk(i)
                                        /\ log[i].application = p[1]
                                        /\ log[i].handle = p[2]})

C17_Witness ==
    \E i \in Adds, j \in Adds :
        /\ i < j /\ SamePair(i, j) /\ IsOk(i) /\ IsOk(j)
        /\ Len(search_items(log[j].vault,
                   search_attributes(log[j].application, log[j].handle))) = 2
        /\ Created(i).attributes = Created(j).attributes

\* C18: when the search for the pair returns one or more items the lookup
\* uses the last of them and retrieve_application_key returns the
\* application key stored in it; when it returns none the lookup yields no
\* item.
C18_LookupUsesLastMatch ==
    \A i \in Retrieves :
        LET result == search_items(log[i].vault,
                          search_attributes(log[i].application, log[i].handle))
            last == result[Len(result)]
        IN  IF Len(result) = 0
            THEN Found(i) = None
            ELSE /\ Found(i) = Some(last)
                 /\ IsRecordEncoding(last.secret)
                        => log[i].result
                            = OkOption(Some(
                                from_slice(last.secret)[2].application_key))

\* all retrievals of a pair logged so far returned the same result
RetrievalsAgree ==
    \A i \in Retrieves, j \in Retrieves :
        SamePair(i, j) => log[i].result = log[j].result

\* C19: retrieve_application_key leaves the vault as it found it, whatever
\* it returns: the same items with the same payloads; and the retrievals of
\* a pair all return the same key.
C19_RetrieveLeavesVault ==
    [][(Len(log') = Len(log) + 1
            /\ log'[Len(log')].op = "retrieve_application_key")
        => /\ items' = items
           /\ log'[Len(log')].vault = items
           /\ log'[Len(log')].created = 0
           /\ RetrievalsAgree'
      ]_vars

C19_Witness ==
    \E i \in Retrieves, j \in Retrieves :
        /\ i < j /\ SamePair(i, j)
        /\ Found(i) # None
        /\ log[j].vault = log[i].vault
        /\ log[j].vault = items
        /\ log[i].result = log[j].result

\* C20: when the application id resolves to no origin, add_application_key
\* fails only if a vault call fails; the item it creates carries every
\* search attribute, times_used = 0 and a date_registered entry but no
\* u2f_app_id entry, and its label is built from the base64 rendering of the
\* application id.
C20_UnresolvedOriginOmitted ==
    \A i \in Adds :
        try_reverse_app_id(log[i].application) = None
        => /\ IsOk(i) \/ log[i].cause # "none"
           /\ IsOk(i)
                => /\ log[i].created = 1
                   /\ search_attributes(log[i].application, log[i].handle)
                        \subseteq Created(i).attributes
                   /\ <<"times_used", "0">> \in Created(i).attributes
                   /\ \E a \in Created(i).attributes : a[1] = "date_registered"
                   /\ \A a \in Created(i).attributes : a[1] # "u2f_app_id"
                   /\ Cardinality(Created(i).attributes) = 6
                   /\ Created(i).label
                        = <<"Universal 2nd Factor token for ",
                            to_base64(log[i].application)>>

C20_Witness ==
    \E i \in Adds :
        /\ log[i].application = "a2"
        /\ try_reverse_app_id(log[i].application) = None
        /\ IsOk(i)
        /\ Created(i).label = <<"Universal 2nd Factor token for ", "YTI=">>
        /\ \A a \in Created(i).attributes : a[1] # "u2f_app_id"

====
